---- MODULE Spec2Model ----
(***************************************************************************)
(* A model of lib/sheet.js (Sheet, BackupSheet, batchConsecutiveIntegers)  *)
(* and of utils.getHeaderFromRecords.                                      *)
(*                                                                         *)
(* The sheet is the grid of cells that hold content: a sequence of rows,   *)
(* row 1 first, every row of the same width, with no trailing blank row    *)
(* and no trailing blank column.  getLastRow() is its height and           *)
(* getLastColumn() its width.  A blank cell is "".  A cell whose text is a *)
(* YYYY-MM-DD date is a date cell: getValues() returns a Date for it,      *)
(* which is what deleteBackupsOlderThanNDays relies on.  A JavaScript      *)
(* object is a sequence of <<key, value>> pairs in insertion order.  A     *)
(* method that can throw is an operator returning a record with a `raised` *)
(* flag and the sheet as the exception left it.                            *)
(***************************************************************************)
EXTENDS Integers, Sequences, FiniteSets, TLC

(***************************************************************************)
(* Bounds of the model.                                                    *)
(***************************************************************************)
MaxLen == 4         \* longest input of batchConsecutiveIntegers
MaxInt == 3         \* integers of that input range over -1..MaxInt
MaxRows == 4        \* rows of the sheet, the header included
MaxCols == 3        \* columns of the sheet, computed fields apart
MaxComputed == 2    \* columns of computed fields
MaxDay == 3         \* "today" ranges over 1..MaxDay
MaxAge == 2         \* n_days ranges over 0..MaxAge
MaxFields == 2      \* longest field list passed to upsertHeader
MaxRecords == 2     \* longest record list passed to appendRows and backupData

(***************************************************************************)
(* JavaScript values.                                                      *)
(***************************************************************************)
Undefined == "<undefined>"

\* Array.prototype.includes
Includes(seq, v) == \E i \in 1..Len(seq) : seq[i] = v

\* A sequence built element by element, as a tuple.  (TLC keeps a function
\* constructor unevaluated and evaluates it anew each time it is applied;
\* concatenation evaluates it once.)
Array(f) == <<>> \o f

\* Array.prototype.indexOf, 0-based, -1 when absent.
IndexOf(seq, v) ==
  IF Includes(seq, v)
  THEN (CHOOSE i \in 1..Len(seq) : seq[i] = v /\ \A j \in 1..(i-1) : seq[j] # v) - 1
  ELSE -1

\* record[f]
Get(record, f) ==
  IF \E i \in 1..Len(record) : record[i][1] = f
  THEN record[CHOOSE i \in 1..Len(record) : record[i][1] = f][2]
  ELSE Undefined

\* f in record (an own key)
Has(record, f) == \E i \in 1..Len(record) : record[i][1] = f

\* record[f] = v : an existing key keeps its place, a new key goes last.
Put(record, f, v) ==
  IF \E i \in 1..Len(record) : record[i][1] = f
  THEN Array([i \in 1..Len(record) |-> IF record[i][1] = f THEN <<f, v>> ELSE record[i]])
  ELSE Append(record, <<f, v>>)

\* Object.keys(record)
Keys(record) == Array([i \in 1..Len(record) |-> record[i][1]])

(***************************************************************************)
(* Dates.  A day is an integer; toISOString().slice(0, 10) writes it as a  *)
(* fixed-width YYYY-MM-DD string, so that the order of the strings is the  *)
(* order of the days.  Day 1 is 2024-01-01.                                *)
(***************************************************************************)
Days == (0 - 9)..28

TwoDigits(k) == IF k < 10 THEN "0" \o ToString(k) ELSE ToString(k)

ISODate(d) ==
  IF d >= 1 THEN "2024-01-" \o TwoDigits(d) ELSE "2023-12-" \o TwoDigits(31 + d)

DateStrings == {ISODate(d) : d \in Days}

IsDate(text) == text \in DateStrings

DayOf(text) == CHOOSE d \in Days : ISODate(d) = text

\* e < from_date on two YYYY-MM-DD strings.
StrLess(a, b) == DayOf(a) < DayOf(b)

(***************************************************************************)
(* batchConsecutiveIntegers.  Positions are 1-based here and 0-based in    *)
(* the code.                                                               *)
(***************************************************************************)
batchConsecutiveIntegersGapBlind(integers) ==
  LET n == Len(integers)
      stencil == Array([i \in 1..(IF n = 0 THEN 1 ELSE n) |->
                          IF i = 1 THEN TRUE ELSE integers[i] < integers[i-1]])
      IsKey(i) == stencil[i]
      keys == SelectSeq(Array([i \in 1..n |-> i]), IsKey)
      ends == Tail(Append(keys, n + 1))
      row_counts == Array([i \in 1..Len(ends) |-> ends[i] - keys[i]])
  IN Array([i \in 1..Len(keys) |-> <<integers[keys[i]], row_counts[i]>>])

batchConsecutiveIntegers(integers) ==
  LET n == Len(integers)
      stencil == Array([i \in 1..(IF n = 0 THEN 1 ELSE n) |->
                          IF i = 1 THEN TRUE ELSE integers[i] # integers[i-1] + 1])
      IsKey(i) == stencil[i]
      keys == SelectSeq(Array([i \in 1..n |-> i]), IsKey)
      ends == Tail(Append(keys, n + 1))
      row_counts == Array([i \in 1..Len(ends) |-> ends[i] - keys[i]])
  IN Array([i \in 1..Len(keys) |-> <<integers[keys[i]], row_counts[i]>>])

(***************************************************************************)
(* utils.getHeaderFromRecords: the keys of the records, each once, in the  *)
(* order a Set keeps them (first insertion).                               *)
(***************************************************************************)
RECURSIVE AddAll(_, _)
AddAllRepeating(header, keys) == header \o keys

AddAll(header, keys) ==
  IF keys = <<>> THEN header
  ELSE AddAll(IF Includes(header, Head(keys)) THEN header
              ELSE Append(header, Head(keys)), Tail(keys))

RECURSIVE getHeaderFromRecordsFrom(_, _)
getHeaderFromRecordsFrom(header, records) ==
  IF records = <<>> THEN header
  ELSE getHeaderFromRecordsFrom(AddAll(header, Keys(Head(records))), Tail(records))

getHeaderFromRecords(records) == getHeaderFromRecordsFrom(<<>>, records)

(***************************************************************************)
(* The grid collaborator (the Apps Script Sheet the class wraps).          *)
(***************************************************************************)
\* setValues writes undefined as a blank cell.
CellOf(v) == IF v = Undefined THEN "" ELSE v

\* The last cell of a row that holds content, at or before column c (0: none).
RECURSIVE LastFilled(_, _)
LastFilled(row, c) == IF c = 0 \/ row[c] # "" THEN c ELSE LastFilled(row, c - 1)

RowLast(row) == LastFilled(row, Len(row))

\* The last row that holds content, at or before row r (0: none).
RECURSIVE LastFilledRow(_, _)
LastFilledRow(rows, r) ==
  IF r = 0 \/ RowLast(rows[r]) > 0 THEN r ELSE LastFilledRow(rows, r - 1)

\* The last column that holds content in rows 1..r (0: none).
RECURSIVE LastFilledColumn(_, _)
LastFilledColumn(rows, r) ==
  IF r = 0 THEN 0
  ELSE LET here == RowLast(rows[r])
           above == LastFilledColumn(rows, r - 1)
       IN IF here > above THEN here ELSE above

\* The cells that hold content: what getLastRow and getLastColumn measure.
Normalize(rows) ==
  LET h == LastFilledRow(rows, Len(rows))
      w == LastFilledColumn(rows, Len(rows))
  IN IF h = Len(rows) /\ \A r \in 1..h : Len(rows[r]) = w THEN rows
     ELSE Array([r \in 1..h |->
                   Array([c \in 1..w |-> IF c <= Len(rows[r]) THEN rows[r][c] ELSE ""])])

getLastRow(s) == Len(s)

getLastColumn(s) == IF s = <<>> THEN 0 ELSE Len(s[1])

\* getDataRange().isBlank()
isBlank(s) == s = <<>>

\* appendRow(values): one row after the last row that holds content.
appendRow(s, values) ==
  Normalize(s \o <<Array([c \in 1..Len(values) |-> CellOf(values[c])])>>)

\* insertColumnAfter(c): a blank column at position c + 1.
insertColumnAfter(s, c) ==
  Array([r \in 1..Len(s) |->
           SubSeq(s[r], 1, c) \o <<"">> \o SubSeq(s[r], c + 1, Len(s[r]))])

\* getRange(r, c).setValue(v), on a grid that insertColumnAfter has not yet
\* normalized.
setValue(s, r, c, v) ==
  Normalize(Array([i \in 1..Len(s) |->
                     IF i = r THEN [s[i] EXCEPT ![c] = CellOf(v)] ELSE s[i]]))

\* getRange(start_row, 1, data.length, width).setValues(data)
setValues(s, start_row, data) ==
  Normalize(SubSeq(s, 1, start_row - 1)
            \o Array([i \in 1..Len(data) |->
                        Array([c \in 1..Len(data[i]) |-> CellOf(data[i][c])])]))

\* deleteRows(start_row, row_count) on any sequence of rows.
deleteRows(rows, start_row, row_count) ==
  SubSeq(rows, 1, start_row - 1) \o SubSeq(rows, start_row + row_count, Len(rows))

\* createTextFinder(value).matchEntireCell(entire): whether a cell matches.
\* Without matchEntireCell the finder matches a cell that contains the text.
Affixes == {"", "A", "B"}

CellMatches(cell, value, entire) ==
  IF entire THEN cell = value
  ELSE \E p \in Affixes, q \in Affixes : p \o value \o q = cell

\* findAll(): the matching cells of the whole sheet, row 1 included, as
\* <<row, column>> in row-major order.
CellsOfRow(s, value, entire, r) ==
  LET Matches(c) == CellMatches(s[r][c], value, entire)
      columns == SelectSeq(Array([c \in 1..Len(s[r]) |-> c]), Matches)
  IN Array([k \in 1..Len(columns) |-> <<r, columns[k]>>])

RECURSIVE CellsFrom(_, _, _, _)
CellsFrom(s, value, entire, r) ==
  IF r > Len(s) THEN <<>>
  ELSE CellsOfRow(s, value, entire, r) \o CellsFrom(s, value, entire, r + 1)

findAll(s, value, entire) == CellsFrom(s, value, entire, 1)

(***************************************************************************)
(* class Sheet                                                             *)
(***************************************************************************)
\* getHeader() asks for the range (1, 1, 1, getLastColumn()): on a sheet
\* with no content that range has no column and getRange throws.
getHeaderRaises(s) == getLastColumn(s) = 0

getHeader(s) == s[1]

\* The 1-indexed column of a field, -1 when the header does not name it
\* (getColumnIdOrFirst: the first column then).
getColumnIdOrFirst(s, field_name) ==
  LET zero_index == IndexOf(getHeader(s), field_name)
  IN IF zero_index = -1 THEN 1 ELSE zero_index + 1

getColumnId(s, field_name) ==
  LET zero_index == IndexOf(getHeader(s), field_name)
  IN IF zero_index = -1 THEN -1 ELSE zero_index + 1

\* The test upsertHeader makes before it adds a column.
HeaderLacksNever(header, f) == TRUE

HeaderLacks(header, f) == ~Includes(header, f)

RECURSIVE upsertHeaderLoop(_, _, _)
upsertHeaderLoop(s, field_names, last_column_id) ==
  IF field_names = <<>> THEN s
  ELSE LET f == Head(field_names)
       IN IF HeaderLacks(getHeader(s), f)
          THEN upsertHeaderLoop(
                 setValue(insertColumnAfter(s, last_column_id), 1, last_column_id + 1, f),
                 Tail(field_names), last_column_id + 1)
          ELSE upsertHeaderLoop(s, Tail(field_names), last_column_id)

upsertHeader(s, field_names) ==
  IF isBlank(s) THEN appendRow(s, field_names)
  ELSE upsertHeaderLoop(s, field_names, getLastColumn(s))

\* The cells findRowsWhere keeps of those the text finder returned.
InColumn(cell, field_id) == cell[2] = field_id

\* [raised, ret]: ret is the array the method returns.
findRowsWhere(s, field_name, value) ==
  IF getHeaderRaises(s) THEN [raised |-> TRUE, ret |-> <<>>]
  ELSE LET field_id == getColumnId(s, field_name)
           cells == findAll(s, value, TRUE)
           Keep(cell) == InColumn(cell, field_id)
           kept == SelectSeq(cells, Keep)
       IN [raised |-> FALSE,
           ret |-> IF field_id = -1 THEN <<>>
                   ELSE Array([i \in 1..Len(kept) |-> kept[i][1]])]

Reverse(seq) == Array([i \in 1..Len(seq) |-> seq[Len(seq) + 1 - i]])

\* The order in which deleteRowsWhere walks the batches.
BatchOrderTopDown(row_batches) == row_batches

BatchOrder(row_batches) == Reverse(row_batches)

\* The loop of deleteRowsWhere.  ids follows the rows: ids[i] is the number
\* the row now at i had when the search was made; removed collects, for
\* each deleteRows call, the numbers of the rows it took away.
RECURSIVE deleteLoop(_, _, _, _)
deleteLoop(batches, rows, ids, removed) ==
  IF batches = <<>> THEN [rows |-> rows, removed |-> removed]
  ELSE LET start_row == Head(batches)[1]
           row_count == Head(batches)[2]
           gone == {ids[i] : i \in (start_row..(start_row + row_count - 1)) \cap (1..Len(ids))}
       IN deleteLoop(Tail(batches), deleteRows(rows, start_row, row_count),
                     deleteRows(ids, start_row, row_count), Append(removed, gone))

\* [sheet, raised, row_ids, calls, removed]: calls are the deleteRows
\* calls issued, in order, as <<start_row, row_count>>.
deleteRowsWhere(s, field_name, value) ==
  LET found == findRowsWhere(s, field_name, value)
      calls == BatchOrder(batchConsecutiveIntegers(found.ret))
      done == deleteLoop(calls, s, Array([i \in 1..Len(s) |-> i]), <<>>)
  IN IF found.raised
     THEN [sheet |-> s, raised |-> TRUE, row_ids |-> <<>>, calls |-> <<>>, removed |-> <<>>]
     ELSE [sheet |-> Normalize(done.rows), raised |-> FALSE, row_ids |-> found.ret,
           calls |-> calls, removed |-> done.removed]

\* [sheet, raised].  With no record, data[0] is undefined and data[0].length
\* throws, after upsertHeader has run.
appendRowsOverLastRow(s, records) ==
  LET s1 == upsertHeader(s, getHeaderFromRecords(records))
      header == getHeader(s1)
      data == Array([i \in 1..Len(records) |->
                       Array([c \in 1..Len(header) |-> Get(records[i], header[c])])])
  IN IF getHeaderRaises(s1) \/ records = <<>>
     THEN [sheet |-> s1, raised |-> TRUE]
     ELSE [sheet |-> setValues(s1, getLastRow(s1), data), raised |-> FALSE]

\* appendRowsAtTop: the rows are written right below the header, above the
\* rows that were there.
appendRowsAtTop(s, records) ==
  LET s1 == upsertHeader(s, getHeaderFromRecords(records))
      header == getHeader(s1)
      data == Array([i \in 1..Len(records) |->
                       Array([c \in 1..Len(header) |-> CellOf(Get(records[i], header[c]))])])
  IN IF getHeaderRaises(s1) \/ records = <<>>
     THEN [sheet |-> s1, raised |-> TRUE]
     ELSE [sheet |-> Normalize(<<s1[1]>> \o data \o Tail(s1)), raised |-> FALSE]

appendRows(s, records) ==
  LET s1 == upsertHeader(s, getHeaderFromRecords(records))
      header == getHeader(s1)
      data == Array([i \in 1..Len(records) |->
                       Array([c \in 1..Len(header) |-> Get(records[i], header[c])])])
  IN IF getHeaderRaises(s1) \/ records = <<>>
     THEN [sheet |-> s1, raised |-> TRUE]
     ELSE [sheet |-> setValues(s1, getLastRow(s1) + 1, data), raised |-> FALSE]

appendWithDate(s, records, date_field_name, date_string) ==
  appendRows(s, Array([i \in 1..Len(records) |->
                         Put(records[i], date_field_name, date_string)]))

(***************************************************************************)
(* class BackupSheet                                                       *)
(***************************************************************************)
FIELDS_TO_BACKUP == <<"id", "Stage">>

BACKUP_DATE_FIELD_NAME == "Backup Date"

\* The same-day deletion of backupData.
deleteTodaySkipped(s, overwrite_today, today) ==
  [sheet |-> s, raised |-> FALSE, row_ids |-> <<>>, calls |-> <<>>, removed |-> <<>>]

\* (deleteTodayAndAllElse: were overwrite_today to clear every row below the
\* header, as Sheet.overwrite clears the sheet.)
deleteTodayAndAllElse(s, overwrite_today, today) ==
  IF ~overwrite_today
  THEN [sheet |-> s, raised |-> FALSE, row_ids |-> <<>>, calls |-> <<>>, removed |-> <<>>]
  ELSE IF getHeaderRaises(s)
  THEN deleteRowsWhere(s, BACKUP_DATE_FIELD_NAME, today)
  ELSE [sheet |-> <<s[1]>>, raised |-> FALSE, row_ids |-> <<>>, calls |-> <<>>,
        removed |-> <<>>]

deleteToday(s, overwrite_today, today) ==
  IF overwrite_today THEN deleteRowsWhere(s, BACKUP_DATE_FIELD_NAME, today)
  ELSE [sheet |-> s, raised |-> FALSE, row_ids |-> <<>>, calls |-> <<>>, removed |-> <<>>]

\* [sheet, raised]
backupDataUnfiltered(s, data, overwrite_today, day) ==
  LET today == ISODate(day)
      cleared == deleteToday(s, overwrite_today, today)
  IN IF cleared.raised THEN [sheet |-> s, raised |-> TRUE]
     ELSE appendWithDate(cleared.sheet, data, BACKUP_DATE_FIELD_NAME, today)

backupData(s, data, overwrite_today, day) ==
  LET today == ISODate(day)
      cleared == deleteToday(s, overwrite_today, today)
      filtered_data ==
        Array([i \in 1..Len(data) |->
                 Array([k \in 1..Len(FIELDS_TO_BACKUP) |->
                          <<FIELDS_TO_BACKUP[k], Get(data[i], FIELDS_TO_BACKUP[k])>>])])
  IN IF cleared.raised THEN [sheet |-> s, raised |-> TRUE]
     ELSE appendWithDate(cleared.sheet, filtered_data, BACKUP_DATE_FIELD_NAME, today)

\* [...new Set(values)]
RECURSIVE Unique(_, _)
Unique(seen, values) ==
  IF values = <<>> THEN seen
  ELSE Unique(IF Includes(seen, Head(values)) THEN seen ELSE Append(seen, Head(values)),
              Tail(values))

\* The dates deleteBackupsOlderThanNDays deletes, of those in the column.
IsOlderOrEqual(e, from_date) == ~StrLess(from_date, e)

IsOlder(e, from_date) == StrLess(e, from_date)

RECURSIVE pruneLoop(_, _)
pruneLoop(s, values) ==
  IF values = <<>> THEN [sheet |-> s, raised |-> FALSE]
  ELSE LET d == deleteRowsWhere(s, BACKUP_DATE_FIELD_NAME, Head(values))
       IN IF d.raised THEN [sheet |-> d.sheet, raised |-> TRUE]
          ELSE pruneLoop(d.sheet, Tail(values))

\* [sheet, raised].  getRange(2, backup_column_id, num_rows) throws for a
\* column -1 and for a range of no row; toISOString is a method of the Date
\* a date cell reads as, and of no other cell value.
deleteBackupsOlderThanNDays(s, n_days, day) ==
  LET from_date == ISODate(day - n_days)
      backup_column_id == getColumnId(s, BACKUP_DATE_FIELD_NAME)
      num_rows == getLastRow(s) - 1
      values == Array([i \in 1..num_rows |-> s[i + 1][backup_column_id]])
      unique_dates == Unique(<<>>, values)
      Old(e) == IsOlder(e, from_date)
      filtered == SelectSeq(unique_dates, Old)
  IN IF getHeaderRaises(s) THEN [sheet |-> s, raised |-> TRUE]
     ELSE IF backup_column_id = -1 \/ num_rows < 1 THEN [sheet |-> s, raised |-> TRUE]
     ELSE IF \E i \in 1..num_rows : ~IsDate(values[i]) THEN [sheet |-> s, raised |-> TRUE]
     ELSE pruneLoop(s, filtered)

(***************************************************************************)
(* Sheet.getSheetRows, countRowsWhere, lookupValues and class MetricsSheet  *)
(***************************************************************************)
\* Object.fromEntries(header.map((k, i) => [k, row[i]])): of two columns of
\* one name the later one gives the value.
RECURSIVE fromEntries(_, _, _)
fromEntries(header, row, record) ==
  IF header = <<>> THEN record
  ELSE fromEntries(Tail(header), Tail(row), Put(record, Head(header), Head(row)))

\* On a sheet that is not blank: one object per row below the header.
getSheetRows(s) ==
  Array([r \in 1..(Len(s) - 1) |-> fromEntries(getHeader(s), s[r + 1], <<>>)])

\* rows.forEach(r => counts[r[group_by_key]] = (counts[r[group_by_key]] || 0) + 1)
\* over the rows that pass the filter.
RECURSIVE countLoop(_, _, _, _, _)
countLoop(rows, field_name, values, group_by_key, counts) ==
  IF rows = <<>> THEN counts
  ELSE LET r == Head(rows)
           key == Get(r, group_by_key)
           count == IF Has(counts, key) THEN Get(counts, key) ELSE 0
       IN countLoop(Tail(rows), field_name, values, group_by_key,
                    IF Includes(values, Get(r, field_name))
                    THEN Put(counts, key, count + 1)
                    ELSE counts)

\* countRowsWhere as addComputedCountsField calls it, with a fourth argument
\* (countRowsWhereOnDate: were that argument a filter on the backup date).
countRowsWhereOnDate(s, field_name, values, group_by_key, backup_date) ==
  LET OnDate(r) == Get(r, "Backup Date") = backup_date
  IN countLoop(SelectSeq(getSheetRows(s), OnDate), field_name, values, group_by_key, <<>>)

countRowsWhere(s, field_name, values, group_by_key, backup_date) ==
  countLoop(getSheetRows(s), field_name, values, group_by_key, <<>>)

\* A vertical array: one single-value array per row.
lookupValues(s, start_row, n_rows, key_column_id, values, default_value) ==
  Array([i \in 1..n_rows |->
           LET key == s[start_row + i - 1][key_column_id]
           IN <<IF Has(values, key) THEN Get(values, key) ELSE default_value>>])

\* A number as the cell shows it.
NumberCell(n) == ToString(n)

\* getRange(start_row, column, n_rows).setValues(values), values numbers.
setColumnValues(s, start_row, column, values) ==
  Normalize(Array([r \in 1..Len(s) |->
                     IF r >= start_row /\ r < start_row + Len(values)
                     THEN [s[r] EXCEPT ![column] = NumberCell(values[r - start_row + 1][1])]
                     ELSE s[r]]))

\* The column of the computed field, created if the header lacks it
\* (ensureColumnAnew: created in any case).
ensureColumnAnew(s, computed_field_name) ==
  setValue(insertColumnAfter(s, getLastColumn(s)), 1, getLastColumn(s) + 1,
           computed_field_name)

ensureColumn(s, computed_field_name) == upsertHeader(s, <<computed_field_name>>)

\* The rows the computed field is written to (rowsOfAnyDate: every row
\* below the header).
rowsOfAnyDate(s, backup_date) == Array([i \in 1..(Len(s) - 1) |-> i + 1])

rowsOfDate(s, backup_date) ==
  findRowsWhere(s, BACKUP_DATE_FIELD_NAME, backup_date).ret

\* The loop of addComputedCountsField.  getRange(row_id, -1) raises.
RECURSIVE metricLoop(_, _, _, _, _)
metricLoop(row_batches, s, metric_column_id, key_column_id, counts) ==
  IF row_batches = <<>> THEN [sheet |-> s, raised |-> FALSE]
  ELSE IF key_column_id = -1 THEN [sheet |-> s, raised |-> TRUE]
  ELSE LET start_row == Head(row_batches)[1]
           n_rows == Head(row_batches)[2]
           values == lookupValues(s, start_row, n_rows, key_column_id, counts, 0)
       IN metricLoop(Tail(row_batches),
                     setColumnValues(s, start_row, metric_column_id, values),
                     metric_column_id, key_column_id, counts)

\* [sheet, raised].  countRowsWhere reads the header first, which raises on
\* a blank sheet.
addComputedCountsField(s, computed_field_name, field_name, values, backup_date) ==
  IF getHeaderRaises(s) THEN [sheet |-> s, raised |-> TRUE]
  ELSE LET group_by_key == "id"
           counts == countRowsWhere(s, field_name, values, group_by_key, backup_date)
           s1 == ensureColumn(s, computed_field_name)
           metric_column_id == getColumnId(s1, computed_field_name)
           key_column_id == getColumnId(s1, group_by_key)
           row_batches == batchConsecutiveIntegers(rowsOfDate(s1, backup_date))
       IN metricLoop(row_batches, s1, metric_column_id, key_column_id, counts)

(***************************************************************************)
(* main(): backupData, addComputedFields(today) and                        *)
(* deleteBackupsOlderThanNDays on the sheet of one table.                  *)
(***************************************************************************)
\* The name of the sheet: the name of the table it backs up.
SHEET_NAME == "Organizations"

\* The addComputedCountsField calls addComputedFields makes for a sheet
\* name, in order, each as <<computed_field_name, field_name, values>>.
ComputedFieldsOf(sheet_name) ==
  IF sheet_name = "Opportunities"
  THEN << <<"Days waiting", "Stage", <<"Project form submitted">> >>,
          <<"Days in Verification", "Stage", <<"Project verification">> >>,
          <<"Days waiting or in verification", "Stage",
            <<"Project form submitted", "Project verification">> >> >>
  ELSE IF sheet_name = "Organizations"
  THEN << <<"Days waiting for verification", "Stage", <<"Waiting for verification">> >> >>
  ELSE <<>>

\* [sheet, raised]
RECURSIVE addComputedFieldsLoop(_, _, _)
addComputedFieldsLoop(s, fields, backup_date) ==
  IF fields = <<>> THEN [sheet |-> s, raised |-> FALSE]
  ELSE LET r == addComputedCountsField(s, Head(fields)[1], Head(fields)[2],
                                       Head(fields)[3], backup_date)
       IN IF r.raised THEN r
          ELSE addComputedFieldsLoop(r.sheet, Tail(fields), backup_date)

addComputedFields(s, sheet_name, backup_date) ==
  addComputedFieldsLoop(s, ComputedFieldsOf(sheet_name), backup_date)

\* [sheet, raised]: one run of main() for one table, on one day.  n_days is
\* the age main() passes to deleteBackupsOlderThanNDays (60 in the source;
\* the calls below pass ages of the few days the model walks).
main(s, sheet_name, airtable_data, n_days, day) ==
  LET backed == backupData(s, airtable_data, TRUE, day)
      computed == addComputedFields(backed.sheet, sheet_name, ISODate(day))
  IN IF backed.raised THEN backed
     ELSE IF computed.raised THEN computed
     ELSE deleteBackupsOlderThanNDays(computed.sheet, n_days, day)

(***************************************************************************)
(* The same run, operation by operation: the sheet after each call that    *)
(* changes it (deleteRows, insertColumnAfter, setValue, setValues,         *)
(* appendRow), in the order main() makes them.                             *)
(***************************************************************************)
RECURSIVE deleteLoopGrids(_, _)
deleteLoopGrids(batches, rows) ==
  IF batches = <<>> THEN <<>>
  ELSE LET next == deleteRows(rows, Head(batches)[1], Head(batches)[2])
       IN <<Normalize(next)>> \o deleteLoopGrids(Tail(batches), next)

deleteRowsWhereGrids(s, field_name, value) ==
  LET found == findRowsWhere(s, field_name, value)
  IN IF found.raised THEN <<>>
     ELSE deleteLoopGrids(BatchOrder(batchConsecutiveIntegers(found.ret)), s)

RECURSIVE upsertHeaderLoopGrids(_, _, _)
upsertHeaderLoopGrids(s, field_names, last_column_id) ==
  IF field_names = <<>> THEN <<>>
  ELSE LET f == Head(field_names)
           widened == insertColumnAfter(s, last_column_id)
           named == setValue(widened, 1, last_column_id + 1, f)
       IN IF HeaderLacks(getHeader(s), f)
          THEN <<Normalize(widened), named>>
               \o upsertHeaderLoopGrids(named, Tail(field_names), last_column_id + 1)
          ELSE upsertHeaderLoopGrids(s, Tail(field_names), last_column_id)

upsertHeaderGrids(s, field_names) ==
  IF isBlank(s) THEN <<appendRow(s, field_names)>>
  ELSE upsertHeaderLoopGrids(s, field_names, getLastColumn(s))

appendRowsGrids(s, records) ==
  LET appended == appendRows(s, records)
  IN upsertHeaderGrids(s, getHeaderFromRecords(records))
     \o (IF appended.raised THEN <<>> ELSE <<appended.sheet>>)

backupDataGrids(s, data, overwrite_today, day) ==
  LET today == ISODate(day)
      cleared == deleteToday(s, overwrite_today, today)
      filtered_data ==
        Array([i \in 1..Len(data) |->
                 Array([k \in 1..Len(FIELDS_TO_BACKUP) |->
                          <<FIELDS_TO_BACKUP[k], Get(data[i], FIELDS_TO_BACKUP[k])>>])])
      stamped == Array([i \in 1..Len(filtered_data) |->
                          Put(filtered_data[i], BACKUP_DATE_FIELD_NAME, today)])
  IN (IF overwrite_today THEN deleteRowsWhereGrids(s, BACKUP_DATE_FIELD_NAME, today)
      ELSE <<>>)
     \o (IF cleared.raised THEN <<>> ELSE appendRowsGrids(cleared.sheet, stamped))

RECURSIVE metricLoopGrids(_, _, _, _, _)
metricLoopGrids(row_batches, s, metric_column_id, key_column_id, counts) ==
  IF row_batches = <<>> \/ key_column_id = -1 THEN <<>>
  ELSE LET start_row == Head(row_batches)[1]
           n_rows == Head(row_batches)[2]
           values == lookupValues(s, start_row, n_rows, key_column_id, counts, 0)
           next == setColumnValues(s, start_row, metric_column_id, values)
       IN <<next>> \o metricLoopGrids(Tail(row_batches), next, metric_column_id,
                                      key_column_id, counts)

addComputedCountsFieldGrids(s, computed_field_name, field_name, values, backup_date) ==
  IF getHeaderRaises(s) THEN <<>>
  ELSE LET group_by_key == "id"
           counts == countRowsWhere(s, field_name, values, group_by_key, backup_date)
           s1 == ensureColumn(s, computed_field_name)
           metric_column_id == getColumnId(s1, computed_field_name)
           key_column_id == getColumnId(s1, group_by_key)
           row_batches == batchConsecutiveIntegers(rowsOfDate(s1, backup_date))
       IN upsertHeaderGrids(s, <<computed_field_name>>)
          \o metricLoopGrids(row_batches, s1, metric_column_id, key_column_id, counts)

RECURSIVE addComputedFieldsLoopGrids(_, _, _)
addComputedFieldsLoopGrids(s, fields, backup_date) ==
  IF fields = <<>> THEN <<>>
  ELSE LET r == addComputedCountsField(s, Head(fields)[1], Head(fields)[2],
                                       Head(fields)[3], backup_date)
       IN addComputedCountsFieldGrids(s, Head(fields)[1], Head(fields)[2],
                                      Head(fields)[3], backup_date)
          \o (IF r.raised THEN <<>>
              ELSE addComputedFieldsLoopGrids(r.sheet, Tail(fields), backup_date))

RECURSIVE pruneLoopGrids(_, _)
pruneLoopGrids(s, values) ==
  IF values = <<>> THEN <<>>
  ELSE LET d == deleteRowsWhere(s, BACKUP_DATE_FIELD_NAME, Head(values))
       IN deleteRowsWhereGrids(s, BACKUP_DATE_FIELD_NAME, Head(values))
          \o (IF d.raised THEN <<>> ELSE pruneLoopGrids(d.sheet, Tail(values)))

deleteBackupsOlderThanNDaysGrids(s, n_days, day) ==
  LET from_date == ISODate(day - n_days)
      backup_column_id == getColumnId(s, BACKUP_DATE_FIELD_NAME)
      num_rows == getLastRow(s) - 1
      values == Array([i \in 1..num_rows |-> s[i + 1][backup_column_id]])
      unique_dates == Unique(<<>>, values)
      Old(e) == IsOlder(e, from_date)
      filtered == SelectSeq(unique_dates, Old)
  IN IF getHeaderRaises(s) \/ backup_column_id = -1 \/ num_rows < 1 THEN <<>>
     ELSE IF \E i \in 1..num_rows : ~IsDate(values[i]) THEN <<>>
     ELSE pruneLoopGrids(s, filtered)

mainGrids(s, sheet_name, airtable_data, n_days, day) ==
  LET backed == backupData(s, airtable_data, TRUE, day)
      computed == addComputedFields(backed.sheet, sheet_name, ISODate(day))
  IN backupDataGrids(s, airtable_data, TRUE, day)
     \o (IF backed.raised THEN <<>>
         ELSE addComputedFieldsLoopGrids(backed.sheet, ComputedFieldsOf(sheet_name),
                                         ISODate(day))
              \o (IF computed.raised THEN <<>>
                  ELSE deleteBackupsOlderThanNDaysGrids(computed.sheet, n_days, day)))

(***************************************************************************)
(* The state: the sheet, the day "new Date()" returns, and the last call   *)
(* made on the sheet object with what it returned.                         *)
(***************************************************************************)
VARIABLES sheet, day, last

vars == <<sheet, day, last>>

\* No call yet.  blank: the sheet was blank when the call was made; changed:
\* the call changed the sheet; repeat: the call before it was the same call
\* with the same arguments (and, for backupData, on the same day), and
\* then first_changed: that call before it changed the sheet.  For a run of
\* main(), steps is the number of sheet operations it made before it
\* stopped, and final the sheet a run that is not interrupted leaves.
NoCall ==
  [op |-> "none", field |-> "", value |-> "", fields |-> <<>>, records |-> <<>>,
   n |-> 0, overwrite |-> FALSE, day |-> 0, ints |-> <<>>,
   raised |-> FALSE, ret |-> <<>>, calls |-> <<>>, removed |-> <<>>,
   blank |-> FALSE, changed |-> FALSE, repeat |-> FALSE, first_changed |-> FALSE,
   computed |-> "", date |-> "", steps |-> 0, final |-> <<>>]

SeqsUpTo(S, n) == UNION {[1..k -> S] : k \in 0..n}

\* The model keeps the sheet within MaxRows x MaxCols.
Fits(s) == Len(s) <= MaxRows /\ getLastColumn(s) <= MaxCols

\* The same, for the sheets that hold computed fields too.
FitsComputed(s) == Len(s) <= MaxRows /\ getLastColumn(s) <= MaxCols + MaxComputed

\* Appending n rows (below a header, written first on a blank sheet) can
\* only fit if this holds; the calls test it before they compute the sheet.
MayFit(s, n) == Len(s) + n <= MaxRows + 1

\* The rows that hold `value` in no cell: a deletion by that value keeps them.
RowsWithout(s, value) ==
  LET Lacks(row) == ~Includes(row, value)
  IN SelectSeq(s, Lacks)

(***************************************************************************)
(* Calls, one action per public method.                                    *)
(***************************************************************************)
UpsertHeader(field_names) ==
  \E s \in {upsertHeader(sheet, field_names)} :
     /\ Fits(s)
     /\ sheet' = s
     /\ last' = [NoCall EXCEPT !.op = "upsertHeader", !.fields = field_names,
                   !.blank = isBlank(sheet), !.changed = (s # sheet),
                   !.repeat = (last.op = "upsertHeader" /\ last.fields = field_names),
                   !.first_changed =
                     (last.op = "upsertHeader" /\ last.fields = field_names
                      /\ last.changed)]
     /\ UNCHANGED day

AppendRows(records) ==
  /\ MayFit(sheet, Len(records))
  /\ \E r \in {appendRows(sheet, records)} :
     /\ Fits(r.sheet)
     /\ sheet' = r.sheet
     /\ last' = [NoCall EXCEPT !.op = "appendRows", !.records = records,
                   !.raised = r.raised, !.blank = isBlank(sheet),
                   !.changed = (r.sheet # sheet)]
     /\ UNCHANGED day

FindRowsWhere(field_name, value) ==
  \E r \in {findRowsWhere(sheet, field_name, value)} :
     /\ last' = [NoCall EXCEPT !.op = "findRowsWhere", !.field = field_name,
                   !.value = value, !.raised = r.raised, !.ret = r.ret,
                   !.blank = isBlank(sheet)]
     /\ UNCHANGED <<sheet, day>>

DeleteRowsWhere(field_name, value) ==
  \E r \in {deleteRowsWhere(sheet, field_name, value)} :
     /\ sheet' = r.sheet
     /\ last' = [NoCall EXCEPT !.op = "deleteRowsWhere", !.field = field_name,
                   !.value = value, !.raised = r.raised, !.ret = r.row_ids,
                   !.calls = r.calls, !.removed = r.removed,
                   !.blank = isBlank(sheet), !.changed = (r.sheet # sheet)]
     /\ UNCHANGED day

BackupData(data, overwrite_today) ==
  /\ MayFit(IF overwrite_today THEN RowsWithout(sheet, ISODate(day)) ELSE sheet,
            Len(data))
  /\ \E r \in {backupData(sheet, data, overwrite_today, day)} :
     /\ FitsComputed(r.sheet)
     /\ sheet' = r.sheet
     /\ last' = [NoCall EXCEPT !.op = "backupData", !.records = data,
                   !.overwrite = overwrite_today, !.day = day, !.raised = r.raised,
                   !.blank = isBlank(sheet), !.changed = (r.sheet # sheet),
                   !.repeat = (/\ last.op = "backupData" /\ last.records = data
                               /\ last.overwrite = overwrite_today /\ last.day = day)]
     /\ UNCHANGED day

DeleteBackupsOlderThanNDays(n_days) ==
  \E r \in {deleteBackupsOlderThanNDays(sheet, n_days, day)} :
     /\ sheet' = r.sheet
     /\ last' = [NoCall EXCEPT !.op = "deleteBackupsOlderThanNDays", !.n = n_days,
                   !.day = day, !.raised = r.raised, !.blank = isBlank(sheet),
                   !.changed = (r.sheet # sheet)]
     /\ UNCHANGED day

AddComputedCountsField(computed_field_name, field_name, values, backup_date) ==
  \E r \in {addComputedCountsField(sheet, computed_field_name, field_name,
                                    values, backup_date)} :
     /\ FitsComputed(r.sheet)
     /\ sheet' = r.sheet
     /\ last' = [NoCall EXCEPT !.op = "addComputedCountsField",
                   !.computed = computed_field_name, !.field = field_name,
                   !.fields = values, !.date = backup_date,
                   !.raised = r.raised, !.blank = isBlank(sheet),
                   !.changed = (r.sheet # sheet),
                   !.repeat = (/\ last.op = "addComputedCountsField"
                               /\ last.computed = computed_field_name
                               /\ last.field = field_name
                               /\ last.fields = values
                               /\ last.date = backup_date),
                   !.first_changed =
                     (/\ last.op = "addComputedCountsField"
                      /\ last.computed = computed_field_name
                      /\ last.field = field_name
                      /\ last.fields = values
                      /\ last.date = backup_date
                      /\ last.changed)]
     /\ UNCHANGED day

\* One run of main() to its end.
Main(airtable_data, n_days) ==
  /\ MayFit(RowsWithout(sheet, ISODate(day)), Len(airtable_data))
  /\ \E r \in {main(sheet, SHEET_NAME, airtable_data, n_days, day)} :
     /\ FitsComputed(r.sheet)
     /\ sheet' = r.sheet
     /\ last' = [NoCall EXCEPT !.op = "main", !.records = airtable_data,
                   !.n = n_days, !.day = day, !.raised = r.raised,
                   !.blank = isBlank(sheet), !.changed = (r.sheet # sheet),
                   !.final = r.sheet]
     /\ UNCHANGED day

\* One run of main() that the host stops after `steps` of its sheet
\* operations, from none of them to all of them.
MainInterrupted(airtable_data, n_days) ==
  /\ MayFit(RowsWithout(sheet, ISODate(day)), Len(airtable_data))
  /\ \E r \in {main(sheet, SHEET_NAME, airtable_data, n_days, day)},
        grids \in {mainGrids(sheet, SHEET_NAME, airtable_data, n_days, day)} :
     /\ FitsComputed(r.sheet)
     /\ \E steps \in 0..Len(grids) :
        /\ sheet' = IF steps = 0 THEN sheet ELSE grids[steps]
        /\ last' = [NoCall EXCEPT !.op = "mainInterrupted", !.records = airtable_data,
                      !.n = n_days, !.day = day, !.raised = r.raised,
                      !.blank = isBlank(sheet), !.steps = steps,
                      !.changed = (steps # 0 /\ grids[steps] # sheet),
                      !.final = r.sheet]
     /\ UNCHANGED day

\* Midnight passes.
NextDay ==
  /\ day < MaxDay
  /\ day' = day + 1
  /\ last' = [NoCall EXCEPT !.op = "nextDay"]
  /\ UNCHANGED sheet

GetHeaderFromRecords(records) ==
  /\ last' = [NoCall EXCEPT !.op = "getHeaderFromRecords", !.records = records,
                !.ret = getHeaderFromRecords(records)]
  /\ UNCHANGED <<sheet, day>>

BatchConsecutiveIntegers(integers) ==
  /\ last' = [NoCall EXCEPT !.op = "batchConsecutiveIntegers", !.ints = integers,
                !.ret = batchConsecutiveIntegers(integers)]
  /\ UNCHANGED <<sheet, day>>

Init ==
  /\ sheet = <<>>
  /\ day = 1
  /\ last = NoCall

(***************************************************************************)
(* Spec: a BackupSheet driven as main() drives it, day after day, with     *)
(* rows also added by hand.                                                *)
(***************************************************************************)
AirtableRecords ==
  { <<(<<"id", "r1">>), (<<"Owner", "x">>), (<<"Stage", "A">>)>>,
    <<(<<"id", "r2">>)>> }

ManualRecords == { <<(<<"id", "r1">>), (<<"Backup Date", "n/a">>)>> }

Next ==
  \/ \E data \in SeqsUpTo(AirtableRecords, MaxRecords), overwrite_today \in BOOLEAN :
       BackupData(data, overwrite_today)
  \/ \E n_days \in 0..MaxAge : DeleteBackupsOlderThanNDays(n_days)
  \/ \E record \in ManualRecords : AppendRows(<<record>>)
  \/ NextDay

Spec == Init /\ [][Next]_vars

(***************************************************************************)
(* SpecSheet: the methods of Sheet called in any order.                    *)
(***************************************************************************)
SheetFields == {"id", "Stage"}

SheetRecords ==
  { <<(<<"Stage", "A">>)>>,
    <<(<<"id", "A">>), (<<"Stage", "AB">>)>> }

SearchFields == {"Stage", "Owner"}

SearchValues == {"A", "Stage"}

NextSheet ==
  \/ \E field_names \in SeqsUpTo(SheetFields, MaxFields) : UpsertHeader(field_names)
  \/ \E records \in SeqsUpTo(SheetRecords, MaxRecords) : AppendRows(records)
  \/ \E field_name \in SearchFields, value \in SearchValues :
       FindRowsWhere(field_name, value)
  \/ \E field_name \in SearchFields, value \in SearchValues :
       DeleteRowsWhere(field_name, value)

SpecSheet == Init /\ [][NextSheet]_vars

(***************************************************************************)
(* SpecMetrics: the daily run of main with its metrics, the steps in any   *)
(* order: backups of one record, computed fields for today (as main asks   *)
(* for them), midnight.                                                    *)
(***************************************************************************)
MetricsRecords ==
  { <<(<<"id", "r1">>), (<<"Stage", "A">>)>>,
    <<(<<"id", "r2">>), (<<"Stage", "B">>)>> }

ComputedFields == {"Days waiting"}

MatchValues == { <<"A">>, <<"B", "A">> }

NextMetrics ==
  \/ \E record \in MetricsRecords, overwrite_today \in BOOLEAN :
       BackupData(<<record>>, overwrite_today)
  \/ \E computed_field_name \in ComputedFields, values \in MatchValues :
       AddComputedCountsField(computed_field_name, "Stage", values, ISODate(day))
  \/ NextDay

SpecMetrics == Init /\ [][NextMetrics]_vars

(***************************************************************************)
(* SpecRetention: the three operations of main() on one sheet that starts  *)
(* blank, in any order, day after day: backups, the computed count of      *)
(* today's rows, and the pruning of old backups.                           *)
(***************************************************************************)
NextRetention ==
  \/ \E record \in MetricsRecords, overwrite_today \in BOOLEAN :
       BackupData(<<record>>, overwrite_today)
  \/ \E computed_field_name \in ComputedFields :
       AddComputedCountsField(computed_field_name, "Stage", <<"A">>, ISODate(day))
  \/ \E n_days \in 0..MaxAge : DeleteBackupsOlderThanNDays(n_days)
  \/ NextDay

SpecRetention == Init /\ [][NextRetention]_vars

(***************************************************************************)
(* SpecMain: main() run day after day on a sheet whose first backup was    *)
(* made without overwrite_today, each run going to its end or stopping     *)
(* after some of its sheet operations.                                     *)
(***************************************************************************)
MainRecords ==
  { <<(<<"id", "r1">>), (<<"Stage", "Waiting for verification">>)>>,
    <<(<<"id", "r2">>), (<<"Stage", "Verified">>)>> }

NextMain ==
  \/ isBlank(sheet) /\ \E record \in MainRecords : BackupData(<<record>>, FALSE)
  \/ \E record \in MainRecords, n_days \in 0..MaxAge : Main(<<record>>, n_days)
  \/ \E record \in MainRecords, n_days \in 0..MaxAge : MainInterrupted(<<record>>, n_days)
  \/ NextDay

SpecMain == Init /\ [][NextMain]_vars

(***************************************************************************)
(* SpecBatch: batchConsecutiveIntegers on every sequence of distinct       *)
(* integers within the bounds.                                             *)
(***************************************************************************)
Distinct(seq) == \A i, j \in 1..Len(seq) : i # j => seq[i] # seq[j]

BatchInputs == {seq \in SeqsUpTo((0 - 1)..MaxInt, MaxLen) : Distinct(seq)}

NextBatch == \E integers \in BatchInputs : BatchConsecutiveIntegers(integers)

SpecBatch == Init /\ [][NextBatch]_vars

(***************************************************************************)
(* SpecUtils: getHeaderFromRecords, called once, on every list of up to    *)
(* MaxRecords records whose keys are distinct names of UtilKeys, in any    *)
(* order.                                                                  *)
(***************************************************************************)
UtilKeys == {"a", "b", "c"}

UtilRecords ==
  {Array([i \in 1..Len(keys) |-> <<keys[i], "1">>]) :
     keys \in {seq \in SeqsUpTo(UtilKeys, Cardinality(UtilKeys)) : Distinct(seq)}}

NextUtils ==
  /\ last = NoCall
  /\ \E records \in SeqsUpTo(UtilRecords, MaxRecords) : GetHeaderFromRecords(records)

SpecUtils == Init /\ [][NextUtils]_vars

(***************************************************************************)
(* Properties.                                                             *)
(***************************************************************************)
\* The integers a sequence of (start, length) pairs stands for.
RECURSIVE Expand(_)
Expand(batches) ==
  IF batches = <<>> THEN <<>>
  ELSE Array([k \in 1..Head(batches)[2] |-> Head(batches)[1] + k - 1])
       \o Expand(Tail(batches))

\* C1: for every sequence of distinct integers, sorted or not,
\* batchConsecutiveIntegers returns pairs (start, length) with length >= 1
\* whose expansions, concatenated, are the input in order; no pair starts
\* one past the end of the pair before it (every run is maximal); and the
\* empty input gives the empty result.
C1_BatchesAreTheMaximalRuns ==
  last.op = "batchConsecutiveIntegers" =>
    /\ \A i \in 1..Len(last.ret) : last.ret[i][2] >= 1
    /\ Expand(last.ret) = last.ints
    /\ \A i \in 2..Len(last.ret) :
         last.ret[i][1] # last.ret[i-1][1] + last.ret[i-1][2]
    /\ (last.ints = <<>> => last.ret = <<>>)

\* An unsorted input of several runs, one of them longer than one integer
\* (the shape of the test's [3, 4, -1, 0, 8]).
C1_Witness ==
  /\ last.op = "batchConsecutiveIntegers"
  /\ last.ints = <<3, 2, -1, 0>>
  /\ last.ret = <<(<<3, 1>>), (<<2, 1>>), (<<-1, 2>>)>>

\* Whether the header names the retention-date column.
HasDateColumn(s) ==
  ~isBlank(s) /\ \E c \in 1..Len(s[1]) : s[1][c] = BACKUP_DATE_FIELD_NAME

\* The retention-date column: the first one the header names so.
DateColumn(s) ==
  CHOOSE c \in 1..Len(s[1]) :
    /\ s[1][c] = BACKUP_DATE_FIELD_NAME
    /\ \A b \in 1..(c - 1) : s[1][b] # BACKUP_DATE_FIELD_NAME

\* The data rows (rows 2 and below) stamped with day d.
RowsOfDay(s, d) ==
  IF HasDateColumn(s)
  THEN {r \in 2..Len(s) : s[r][DateColumn(s)] = ISODate(d)}
  ELSE {}

\* C2: backupData with overwrite_today = true, run twice on the same day
\* with the same records on a sheet that had a header before the first run,
\* leaves one row per record stamped with today's date: as many after the
\* second run as records, and as many as after the first run.
C2_SameDayRerunDoesNotDuplicate ==
  [][(/\ last.op = "backupData" /\ last.overwrite /\ ~last.blank
      /\ last'.op = "backupData" /\ last'.repeat)
     => /\ Cardinality(RowsOfDay(sheet', day)) = Len(last'.records)
        /\ Cardinality(RowsOfDay(sheet, day)) = Len(last'.records)]_vars

\* A second run of two records, below a row of an earlier day.
C2_Witness ==
  /\ last.op = "backupData" /\ last.repeat /\ last.overwrite /\ ~last.raised
  /\ Len(last.records) = 2
  /\ Cardinality(RowsOfDay(sheet, day)) = 2
  /\ \E d \in 1..(day - 1) : RowsOfDay(sheet, d) # {}

\* Whether every retention-date cell of the data rows is a date.
AllDatesValid(s) ==
  HasDateColumn(s) /\ \A r \in 2..Len(s) : IsDate(s[r][DateColumn(s)])

\* The sheet with only the header and the data rows that are not dated
\* before day `cutoff`; a data row whose date cell is no date is kept.
WithoutRowsBefore(s, cutoff) ==
  LET Kept(row) ==
        IsDate(row[DateColumn(s)]) => DayOf(row[DateColumn(s)]) >= cutoff
  IN <<s[1]>> \o SelectSeq(Tail(s), Kept)

\* C3: on a sheet whose retention-date cells are all dates,
\* deleteBackupsOlderThanNDays(n) leaves the header and exactly the data
\* rows dated today - n or later, unchanged and in their order.
C3_PruneDeletesExactlyTheOlderRows ==
  [][(last'.op = "deleteBackupsOlderThanNDays" /\ AllDatesValid(sheet))
     => sheet' = WithoutRowsBefore(sheet, day - last'.n)]_vars

\* A prune that deleted rows, kept a row dated exactly today - n, and kept
\* a later one.
C3_Witness ==
  /\ last.op = "deleteBackupsOlderThanNDays" /\ last.changed /\ ~last.raised
  /\ RowsOfDay(sheet, last.day - last.n) # {}
  /\ \E d \in (last.day - last.n + 1)..last.day : RowsOfDay(sheet, d) # {}

\* C4: with a retention-date cell that is no date,
\* deleteBackupsOlderThanNDays(n) does not raise, keeps the rows of that
\* cell, and still deletes the rows whose date is before today - n.
C4_UnparseableDateIsKeptNotFatal ==
  [][(/\ last'.op = "deleteBackupsOlderThanNDays"
      /\ HasDateColumn(sheet) /\ ~AllDatesValid(sheet))
     => /\ ~last'.raised
        /\ sheet' = WithoutRowsBefore(sheet, day - last'.n)]_vars

\* Row 1 of the sheet; no name on a blank sheet.
HeaderOf(s) == IF isBlank(s) THEN <<>> ELSE s[1]

\* The first column the header names `field_name`.
ColumnOf(s, field_name) ==
  CHOOSE c \in 1..Len(s[1]) :
    s[1][c] = field_name /\ \A b \in 1..(c - 1) : s[1][b] # field_name

\* The data rows whose cell under `field_name` is `value`, the whole cell.
MatchingRows(s, field_name, value) ==
  IF Includes(HeaderOf(s), field_name)
  THEN {r \in 2..Len(s) : s[r][ColumnOf(s, field_name)] = value}
  ELSE {}

\* The sheet with the header and only the data rows that do not match.
WithoutMatchingRows(s, field_name, value) ==
  LET Kept(row) == row[ColumnOf(s, field_name)] # value
  IN <<s[1]>> \o SelectSeq(Tail(s), Kept)

\* C5: after deleteRowsWhere(field, value) on a sheet whose header names
\* field, no data row holds value under field, and the data rows left are
\* the rows that did not match, unchanged and in their order.
C5_DeleteRemovesExactlyTheMatchingRows ==
  [][(last'.op = "deleteRowsWhere" /\ Includes(HeaderOf(sheet), last'.field))
     => /\ sheet' = WithoutMatchingRows(sheet, last'.field, last'.value)
        /\ MatchingRows(sheet', last'.field, last'.value) = {}]_vars

\* The maximal runs of consecutive integers of a set, as <<start, length>>.
RunsOf(S) ==
  {<<a, n>> \in S \X (1..Cardinality(S)) :
     /\ (a - 1) \notin S
     /\ \A k \in 0..(n - 1) : (a + k) \in S
     /\ (a + n) \notin S}

\* The set of the elements of a sequence.
Elements(seq) == {seq[i] : i \in 1..Len(seq)}

\* C6: one deleteRowsWhere call issues one deleteRows per maximal run of
\* the rows it found, from the bottom run to the top one, and each
\* deleteRows removes just the rows of its run as they were numbered when
\* the search was made.
C6_DeletionsGoBottomUp ==
  (last.op = "deleteRowsWhere" /\ ~last.raised) =>
    /\ Elements(last.calls) = RunsOf(Elements(last.ret))
    /\ Len(last.calls) = Cardinality(RunsOf(Elements(last.ret)))
    /\ \A i \in 2..Len(last.calls) : last.calls[i][1] < last.calls[i-1][1]
    /\ Len(last.removed) = Len(last.calls)
    /\ \A i \in 1..Len(last.calls) :
         last.removed[i] = last.calls[i][1]..(last.calls[i][1] + last.calls[i][2] - 1)

\* A deletion of data rows 2 and 4 that kept row 3.
C6_Witness ==
  /\ last.op = "deleteRowsWhere"
  /\ last.ret = <<2, 4>>
  /\ last.calls = <<(<<4, 1>>), (<<2, 1>>)>>
  /\ Len(sheet) = 2

RECURSIVE Ascending(_)
Ascending(S) ==
  IF S = {} THEN <<>>
  ELSE LET least == CHOOSE x \in S : \A y \in S : x <= y
       IN <<least>> \o Ascending(S \ {least})

\* C8: findRowsWhere(field, value) returns, in ascending order, the data
\* rows (row 2 and below) whose cell in the first column named field is
\* value, the whole cell: never row 1, never a row that matches in another
\* column or holds value as a part of a longer text.
C8_FindReturnsTheMatchingDataRows ==
  (last.op = "findRowsWhere" /\ ~last.raised) =>
    last.ret = Ascending(MatchingRows(sheet, last.field, last.value))

\* The number of columns the header names f.
Columns(s, f) == Cardinality({c \in 1..Len(HeaderOf(s)) : HeaderOf(s)[c] = f})

\* C9: upsertHeader called a second time with the same field list leaves
\* the sheet as the first call left it.
C9_UpsertHeaderIsIdempotent ==
  [][(last.op = "upsertHeader" /\ last'.op = "upsertHeader" /\ last'.repeat)
     => sheet' = sheet]_vars

\* A second call, with a list that names a field twice, after a first call
\* that added columns.
C9_Witness ==
  /\ last.op = "upsertHeader" /\ last.repeat /\ last.first_changed
  /\ Len(last.fields) = 2 /\ last.fields[1] = last.fields[2]

\* C10: upsertHeader with a list that names a field more than once does not
\* make two columns of that name, on a blank sheet or on one with a header:
\* a name of the list that was absent gets one column, a name that was
\* present gets none.
C10_UpsertHeaderMakesNoDuplicate ==
  [][last'.op = "upsertHeader"
     => \A i \in 1..Len(last'.fields) :
          Columns(sheet', last'.fields[i]) =
            IF Columns(sheet, last'.fields[i]) = 0 THEN 1
            ELSE Columns(sheet, last'.fields[i])]_vars

\* seq is the beginning of longer.
IsPrefix(seq, longer) ==
  Len(seq) <= Len(longer) /\ \A i \in 1..Len(seq) : seq[i] = longer[i]

\* C11: the header only grows: whatever method is called, the header
\* before the call is the beginning of the header after it.
C11_HeaderIsAppendOnly ==
  [][IsPrefix(HeaderOf(sheet), HeaderOf(sheet'))]_vars

\* What a row written from a record shows under the column named f.
Shown(record, f) ==
  IF \E k \in 1..Len(record) : record[k][1] = f
  THEN record[CHOOSE k \in 1..Len(record) : record[k][1] = f][2]
  ELSE ""

\* C12: appendRows with at least one record, on a sheet that has a header,
\* adds one row per record, in the order of the records, right below the
\* rows there were; each new cell holds the record's value for the name at
\* the top of its column, or nothing when the record has no such key; the
\* rows there were keep their place and their cells.
C12_AppendAddsOneAlignedRowPerRecord ==
  [][(last'.op = "appendRows" /\ last'.records # <<>> /\ ~isBlank(sheet))
     => /\ ~last'.raised
        /\ Len(sheet') = Len(sheet) + Len(last'.records)
        /\ \A i \in 1..Len(last'.records) : \A c \in 1..Len(sheet'[1]) :
             sheet'[Len(sheet) + i][c] = Shown(last'.records[i], sheet'[1][c])
        /\ \A r \in 1..Len(sheet) : \A c \in 1..Len(sheet[1]) :
             sheet'[r][c] = sheet[r][c]]_vars

\* Two records of different keys appended below a data row, one of the
\* keys new to the header.
C12_Witness ==
  /\ last.op = "appendRows" /\ ~last.blank /\ ~last.raised
  /\ Len(last.records) = 2 /\ last.records[1] # last.records[2]
  /\ Len(sheet) = 4
  /\ sheet[1] = <<"Stage", "id">>
  /\ sheet[2] = <<"A", "">>

\* C13: appendRows with no record raises nothing and leaves the sheet as
\* it was.
C13_AppendOfNothingIsNoOp ==
  [][(last'.op = "appendRows" /\ last'.records = <<>>)
     => ~last'.raised /\ sheet' = sheet]_vars

\* C14: every row backupData appends holds, under each field to back up,
\* the record's value for it (nothing when the record lacks it), today's
\* date under the backup date column, and nothing in any other column; the
\* call adds no column but those of the fields to back up and of the date.
C14_BackupWritesOnlyTheFieldsToBackUp ==
  [][(last'.op = "backupData" /\ ~last'.raised)
     => LET n == Len(last'.records)
            first == Len(sheet') - n
        IN /\ first >= 1
           /\ \A i \in 1..n : \A c \in 1..Len(sheet'[1]) :
                sheet'[first + i][c] =
                  IF sheet'[1][c] = BACKUP_DATE_FIELD_NAME THEN ISODate(day)
                  ELSE IF Includes(FIELDS_TO_BACKUP, sheet'[1][c])
                       THEN Shown(last'.records[i], sheet'[1][c])
                       ELSE ""
           /\ \A c \in 1..Len(sheet'[1]) :
                \/ Includes(HeaderOf(sheet), sheet'[1][c])
                \/ Includes(FIELDS_TO_BACKUP, sheet'[1][c])
                \/ sheet'[1][c] = BACKUP_DATE_FIELD_NAME]_vars

\* A backup of a record that has a field outside the fields to back up,
\* and of a record that lacks one of them.
C14_Witness ==
  /\ last.op = "backupData" /\ ~last.raised /\ Len(last.records) = 2
  /\ Shown(last.records[1], "Owner") = "x"
  /\ Shown(last.records[2], "Stage") = ""
  /\ sheet[1] = <<"id", "Stage", "Backup Date">>
  /\ sheet[Len(sheet) - 1] = <<"r1", "A", ISODate(day)>>
  /\ sheet[Len(sheet)] = <<"r2", "", ISODate(day)>>

\* The column of a field of a sheet whose header names it.
FieldCell(s, r, field_name) == s[r][ColumnOf(s, field_name)]

\* C15: addComputedCountsField keeps the rows and their order; it changes
\* no cell of a row of another backup date in the columns there were, and
\* in the rows of its backup date it changes the computed field only.
C15_ComputedFieldTouchesOnlyItsDate ==
  [][last'.op = "addComputedCountsField"
     => /\ Len(sheet') = Len(sheet)
        /\ \A r \in 1..Len(sheet) : \A c \in 1..Len(sheet[1]) :
             sheet'[r][c] # sheet[r][c]
             => /\ r >= 2
                /\ FieldCell(sheet, r, BACKUP_DATE_FIELD_NAME) = last'.date
                /\ c = ColumnOf(sheet', last'.computed)
        /\ \A r \in 2..Len(sheet) : \A c \in (Len(sheet[1]) + 1)..Len(sheet'[1]) :
             sheet'[r][c] # ""
             => FieldCell(sheet, r, BACKUP_DATE_FIELD_NAME) = last'.date]_vars

\* A computation for today that wrote today's count below a row of an
\* earlier day, which keeps the count it had.
C15_Witness ==
  /\ last.op = "addComputedCountsField" /\ last.changed /\ ~last.raised
  /\ Len(sheet) = 3 /\ Len(sheet[1]) = 4
  /\ sheet[2][3] # last.date /\ sheet[2][4] = "1"
  /\ sheet[3][3] = last.date /\ sheet[3][4] = "0"
  /\ sheet[3][1] = "r2"

\* The number of rows below the header with this id whose field is one of
\* the values.
CountOf(s, id, field_name, values) ==
  Cardinality({r \in 2..Len(s) :
                 /\ FieldCell(s, r, "id") = id
                 /\ Includes(values, FieldCell(s, r, field_name))})

\* C16: after addComputedCountsField every row of the backup date holds, as
\* its computed field, the number of rows of the whole sheet, of any date,
\* that have its id and whose field is one of the values; 0 when there is
\* none.
C16_ComputedFieldIsTheCountOverAllDates ==
  [][(last'.op = "addComputedCountsField" /\ ~last'.raised)
     => \A r \in 2..Len(sheet') :
          FieldCell(sheet', r, BACKUP_DATE_FIELD_NAME) = last'.date
          => FieldCell(sheet', r, last'.computed) =
               NumberCell(CountOf(sheet, sheet'[r][ColumnOf(sheet', "id")],
                                  last'.field, last'.fields))]_vars

\* Today's row of r1 counts two rows, one of them of an earlier day, and
\* today's row of r2 counts none.
C16_Witness ==
  /\ last.op = "addComputedCountsField" /\ ~last.raised
  /\ Len(sheet) = 4 /\ Len(sheet[1]) = 4
  /\ sheet[2][1] = "r1" /\ sheet[2][3] # last.date
  /\ sheet[3][1] = "r1" /\ sheet[3][3] = last.date /\ sheet[3][4] = "2"
  /\ sheet[4][1] = "r2" /\ sheet[4][3] = last.date /\ sheet[4][4] = "0"

\* C17: addComputedCountsField called a second time with the same
\* arguments, nothing in between, leaves the sheet as the first call left
\* it.
C17_ComputedFieldIsIdempotent ==
  [][(/\ last.op = "addComputedCountsField"
      /\ last'.op = "addComputedCountsField" /\ last'.repeat)
     => sheet' = sheet]_vars

\* A second call after a first call that wrote counts.
C17_Witness ==
  /\ last.op = "addComputedCountsField" /\ last.repeat /\ last.first_changed
  /\ ~last.raised
  /\ \E r \in 2..Len(sheet) :
       sheet[r][3] = last.date /\ sheet[r][Len(sheet[1])] = "1"

\* Where a key first appears in a list of records: records in order, keys
\* in each record's order.
FirstSeen(records, key) ==
  LET i == CHOOSE i \in 1..Len(records) :
             /\ Has(records[i], key)
             /\ \A j \in 1..(i - 1) : ~Has(records[j], key)
      k == CHOOSE k \in 1..Len(records[i]) : records[i][k][1] = key
  IN <<i, k>>

\* C18: getHeaderFromRecords returns every key of every record, each once,
\* in the order in which the keys first appear; no record, no name.
C18_HeaderIsTheUnionInFirstSeenOrder ==
  last.op = "getHeaderFromRecords" =>
    /\ Elements(last.ret) =
         UNION {Elements(Keys(last.records[i])) : i \in 1..Len(last.records)}
    /\ Distinct(last.ret)
    /\ \A x, y \in 1..Len(last.ret) :
         x < y =>
           LET a == FirstSeen(last.records, last.ret[x])
               b == FirstSeen(last.records, last.ret[y])
           IN a[1] < b[1] \/ (a[1] = b[1] /\ a[2] < b[2])
    /\ (last.records = <<>> => last.ret = <<>>)

\* Two records that share a key and have their keys in different orders.
C18_Witness ==
  /\ last.op = "getHeaderFromRecords"
  /\ Len(last.records) = 2
  /\ Keys(last.records[1]) = <<"b", "a">>
  /\ Keys(last.records[2]) = <<"a", "c">>
  /\ last.ret = <<"b", "a", "c">>

\* C19: deleteBackupsOlderThanNDays on a sheet whose header lacks the
\* backup date column, or that has a header and no row below it, raises
\* nothing and leaves the sheet as it was.
C19_PruneWithoutDatesIsNoOp ==
  [][(/\ last'.op = "deleteBackupsOlderThanNDays"
      /\ ~isBlank(sheet)
      /\ (~HasDateColumn(sheet) \/ Len(sheet) = 1))
     => ~last'.raised /\ sheet' = sheet]_vars

\* C20: backupData of at least one record with overwrite_today on a blank
\* sheet raises nothing; the header becomes the fields to back up, in
\* their order, then the backup date column, with one row per record
\* below it.
C20_FirstBackupOnBlankSheetSucceeds ==
  [][(/\ last'.op = "backupData" /\ last'.overwrite
      /\ isBlank(sheet) /\ last'.records # <<>>)
     => /\ ~last'.raised
        /\ HeaderOf(sheet') = FIELDS_TO_BACKUP \o <<BACKUP_DATE_FIELD_NAME>>
        /\ Len(sheet') = 1 + Len(last'.records)]_vars

\* The rows below the header whose backup date is not `today`, cut to the
\* first `width` columns.
OtherDays(s, today, width) ==
  LET Other(row) == row[DateColumn(s)] # today
      rows == SelectSeq(Tail(s), Other)
  IN Array([i \in 1..Len(rows) |-> SubSeq(rows[i], 1, width)])

\* C21: backupData leaves the rows of the other backup dates as they were:
\* after the call, with or without overwrite_today, the rows not dated
\* today are the ones there were, with their cells and in their order (so
\* overwrite_today removes rows dated today only), and without
\* overwrite_today every row there was is still in its place.
C21_BackupKeepsTheOtherDays ==
  [][(last'.op = "backupData" /\ HasDateColumn(sheet))
     => /\ HasDateColumn(sheet')
        /\ OtherDays(sheet', ISODate(day), Len(sheet[1]))
             = OtherDays(sheet, ISODate(day), Len(sheet[1]))
        /\ ~last'.overwrite
           => \A r \in 1..Len(sheet) :
                SubSeq(sheet'[r], 1, Len(sheet[1])) = sheet[r]]_vars

\* A second backup of the day with overwrite_today, which replaced today's
\* row: the row of the day before is still row 2.
C21_Witness ==
  /\ last.op = "backupData" /\ last.overwrite /\ ~last.raised /\ last.repeat
  /\ Len(last.records) = 1
  /\ Len(sheet) = 3
  /\ sheet[2][DateColumn(sheet)] = ISODate(day - 1)
  /\ sheet[3][DateColumn(sheet)] = ISODate(day)

\* C22: on a sheet that started blank and saw only backups (with or
\* without overwrite_today), computed counts and prunings, with the day
\* never going back, every data row carries a backup date that is a date
\* not after today, and the backup dates never decrease from one row to
\* the row below it: each date is one block of rows and today's rows are
\* the last rows.
C22_RowsAreInDateOrder ==
  Len(sheet) >= 2 =>
    /\ HasDateColumn(sheet)
    /\ \A r \in 2..Len(sheet) :
         /\ IsDate(sheet[r][DateColumn(sheet)])
         /\ DayOf(sheet[r][DateColumn(sheet)]) <= day
         /\ r > 2 => DayOf(sheet[r - 1][DateColumn(sheet)])
                        <= DayOf(sheet[r][DateColumn(sheet)])
         /\ sheet[r][DateColumn(sheet)] = ISODate(day)
              => \A q \in r..Len(sheet) : sheet[q][DateColumn(sheet)] = ISODate(day)

\* A pruning that removed the oldest block and left the rows of two later
\* days, the older above the newer, after counts were computed.
C22_Witness ==
  /\ last.op = "deleteBackupsOlderThanNDays" /\ last.changed /\ ~last.raised
  /\ Len(sheet) = 3
  /\ Len(sheet[1]) > Len(FIELDS_TO_BACKUP) + 1
  /\ sheet[2][DateColumn(sheet)] = ISODate(day - 1)
  /\ sheet[3][DateColumn(sheet)] = ISODate(day)

\* C23: when a run of main() has stopped after any number of its sheet
\* operations (all of them included) and main() is then run to its end on
\* the same day with the same records, the sheet it leaves is the sheet one
\* uninterrupted run would have left from the sheet the first run started on.
C23_RerunGivesTheUninterruptedSheet ==
  [][(/\ last.op \in {"main", "mainInterrupted"} /\ ~last.raised
      /\ last'.op = "main"
      /\ last'.records = last.records /\ last'.n = last.n /\ last'.day = last.day)
     => sheet' = last.final]_vars

====
